---- MODULE Spec2Model ----
(***************************************************************************)
(* A state-machine model of the SEC Form 25 delisting scraper              *)
(* (src/Delisted_Stock_Scraper.py): the market-cap resolution cascade of   *)
(* OptimizedMarketCapFetcher and the filing collection loop of             *)
(* SECDelistingScraperOptimized, driven by main().                         *)
(*                                                                         *)
(* Representation notes.                                                   *)
(*  - Python None for an optional number is the empty tuple <<>>; a money  *)
(*    amount or share count n is the pair <<n \div 10^6, n % 10^6>>, so    *)
(*    that 10^12 fits TLC's integers.  float() of such an integer is exact *)
(*    (all values are below 2^53).                                         *)
(*  - A date string is the sequence of its characters (a digit is its     *)
(*    value, '-' is Dash); strptime parses it to the date <<y, m, d>>, and  *)
(*    save_to_csv orders the strings themselves.                           *)
(*  - company_name/title and the registry 'cik' zero padding are carried    *)
(*    through unchanged by the code and are left out of the records.       *)
(***************************************************************************)
EXTENDS Integers, Sequences, FiniteSets, TLC

VARIABLES
  pc,                      \* position in main / find_form25... / get_market_cap
  fmp_api_key,             \* TRUE iff a non-empty key was passed to the constructor
  target_exchanges,        \* constructor argument, then self.target_exchanges
  validation,              \* the response to __init__'s validation request
  fmp_api_working,         \* self.fmp_api_working
  stats,                   \* self.stats
  date_arg,                \* get_market_cap's date parameter
  result,                  \* get_market_cap's returned market cap
  source,                  \* get_market_cap's returned source
  invoked,                 \* strategies invoked by the current get_market_cap call
  computed,                \* market_cap = close_price * shares of the last price x shares strategy
  fmp_status,              \* status of the last FMP quote response (0: none yet)
  fmp_requests,            \* FMP quote requests issued by _get_from_fmp
  ticker_to_exchange,      \* self.ticker_to_exchange (the exchange cache)
  lookups,                 \* external exchange lookups made, per ticker
  endpoint,                \* endpoints get_company_tickers has tried in vain
  cik_to_ticker,           \* the registry, in dict insertion order
  processed,               \* companies started by the collection loop
  submissions,             \* filing history of the current company
  i,                       \* index of the current filing (0-based, as in the code)
  filing_info,             \* the FilingEvent under construction
  all_filings,
  filings_with_market_cap,
  fetch_error,             \* get_submissions_for_cik caught an exception for this company
  sleeps,                  \* time.sleep calls made by the collection loop
  files                    \* output files written by save_to_csv

vars == <<pc, fmp_api_key, target_exchanges, validation, fmp_api_working, stats, date_arg,
          result, source, invoked, computed, fmp_status, fmp_requests, ticker_to_exchange,
          lookups, endpoint, cik_to_ticker, processed, submissions, fetch_error, i,
          filing_info, all_filings, filings_with_market_cap, sleeps, files>>

cfgVars      == <<fmp_api_key, target_exchanges, validation>>
callVars     == <<date_arg, result, source, invoked, computed>>
fmpVars      == <<fmp_status, fmp_requests>>
cacheVars    == <<ticker_to_exchange, lookups>>
registryVars == <<endpoint, cik_to_ticker>>
loopVars     == <<processed, submissions, fetch_error, i, filing_info>>
outVars      == <<all_filings, filings_with_market_cap>>
ioVars       == <<sleeps, files>>

-----------------------------------------------------------------------------
(* Bounds of the model *)

MaxCompanies == 2          \* registry entries in one response
MaxFilings   == 2          \* entries of one company's filing history
MaxCalls     == 3          \* get_market_cap calls made by the resolver harness
MaxRows      == 3          \* filings passed to save_to_csv by the save harness

-----------------------------------------------------------------------------
(* Values *)

NoValue == <<>>                                   \* Python None (numbers)
NoneStr == "None"                                 \* Python None (strings)
Base    == 1000 * 1000

Amount(hi, lo) == <<hi, lo>>
Less(a, b)     == a[1] < b[1] \/ (a[1] = b[1] /\ a[2] < b[2])
\* a negative n is the pair of -(|n| \div 10^6) and -(|n| % 10^6)
IsZero(a)      == a[1] = 0 /\ a[2] = 0
Positive(a)    == a[1] > 0 \/ (a[1] = 0 /\ a[2] > 0)
Times(p, a)    == LET low == p * a[2]
                  IN  <<p * a[1] + (low \div Base), low % Base>>

\* 'not x' of a share count or market cap: None or 0 (a negative number is truthy)
Falsy(a)          == a = NoValue \/ IsZero(a)
\* 'x and x > 0' of a share count or market cap
TruthyPositive(a) == ~Falsy(a) /\ Positive(a)

SANITY_LOW     == Amount(0, 1000)                 \* 1_000
SANITY_HIGH    == Amount(1000000, 0)              \* 1_000_000_000_000
MAX_MARKET_CAP == Amount(2000, 0)                 \* 2_000_000_000

\* A string of digits and '-' is the sequence of its characters: a digit is its
\* value and '-' is Dash, which sorts below the digits as it does in Python.
Dash == 0 - 1
Digits2(n) == <<n \div 10, n % 10>>
Digits4(n) == <<n \div 1000, (n \div 100) % 10, (n \div 10) % 10, n % 10>>
\* a month or day field, zero padded or not
DateField(n, padded) == IF n < 10 /\ ~padded THEN <<n>> ELSE Digits2(n)
\* the string 'YYYY-MM-DD' (padded) or 'YYYY-M-D'
DateString(y, m, d, padded) ==
  Digits4(y) \o <<Dash>> \o DateField(m, padded) \o <<Dash>> \o DateField(d, padded)

START_DATE     == DateString(2015, 1, 1, TRUE)    \* '2015-01-01'
END_DATE       == DateString(2024, 12, 31, TRUE)  \* '2024-12-31'
TARGET_EXCHANGES  == {"NYSE", "NASDAQ", "AMEX", "NYSE AMERICAN"}
DEFAULT_EXCHANGES == {"NYSE", "NASDAQ", "AMEX"}
Form25Types    == {"25", "25-NSE"}
Sources        == {"yahoo_historical", "fmp_api", "calculated", "yahoo_current"}

IsLeap(y) == (y % 4 = 0 /\ y % 100 # 0) \/ y % 400 = 0
DaysInMonth(y, m) ==
  IF m \in {4, 6, 9, 11} THEN 30
  ELSE IF m = 2 THEN (IF IsLeap(y) THEN 29 ELSE 28)
  ELSE 31
\* datetime.strptime(s, '%Y-%m-%d'): the date <<y, m, d>>, or NoValue when it
\* raises ValueError.  %Y takes four digits, %m and %d one or two (a leading
\* zero is optional), and the fields must name a calendar day.
IsDigits(s, from, to) == \A k \in from..to : s[k] \in 0..9
Number(s, from, to) ==
  IF to = from THEN s[from] ELSE 10 * s[from] + s[to]
strptime(s) ==
  IF Len(s) < 8 \/ Len(s) > 10 THEN NoValue
  ELSE IF ~IsDigits(s, 1, 4) \/ s[5] # Dash THEN NoValue
  ELSE LET mlen == IF s[7] = Dash THEN 1 ELSE 2
           dfrom == 7 + mlen
       IN  IF s[6 + mlen] # Dash \/ ~IsDigits(s, 6, 5 + mlen) THEN NoValue
           ELSE IF Len(s) - dfrom \notin {0, 1} \/ ~IsDigits(s, dfrom, Len(s)) THEN NoValue
           ELSE LET y == 1000 * s[1] + 100 * s[2] + 10 * s[3] + s[4]
                    m == Number(s, 6, 5 + mlen)
                    d == Number(s, dfrom, Len(s))
                IN  IF y >= 1 /\ m \in 1..12 /\ d \in 1..DaysInMonth(y, m)
                    THEN <<y, m, d>> ELSE NoValue
strptime_ok(s) == strptime(s) # NoValue
\* date.toordinal() of a parsed date: 0001-01-01 is day 1
RECURSIVE DaysBeforeMonth(_, _)
DaysBeforeMonth(y, m) ==
  IF m = 1 THEN 0 ELSE DaysBeforeMonth(y, m - 1) + DaysInMonth(y, m - 1)
DaysBeforeYear(y) ==
  LET p == y - 1 IN p * 365 + (p \div 4) - (p \div 100) + (p \div 400)
toordinal(d) == DaysBeforeYear(d[1]) + DaysBeforeMonth(d[1], d[2]) + d[3]
\* datetime.min and datetime.max are the days 0001-01-01 and 9999-12-31
MinDate == <<1, 1, 1>>
MaxDate == <<9999, 12, 31>>
\* date_obj = strptime(date), start_date = date_obj - timedelta(days=days) and
\* end_date = date_obj + timedelta(days=1) are all computed: strptime raises
\* ValueError on a string that is no date, and the subtraction or the addition
\* raises OverflowError when it leaves datetime.min..datetime.max
price_window_ok(date, days) ==
  IF ~strptime_ok(date) THEN FALSE
  ELSE LET date_obj == toordinal(strptime(date))
       IN  /\ date_obj - days >= toordinal(MinDate)
           /\ date_obj + 1 <= toordinal(MaxDate)
\* comparison of two parsed dates
DateLeq(a, b) ==
  \/ a[1] < b[1]
  \/ a[1] = b[1] /\ a[2] < b[2]
  \/ a[1] = b[1] /\ a[2] = b[2] /\ a[3] <= b[3]

-----------------------------------------------------------------------------
(* OptimizedMarketCapFetcher: the four strategies as functions of the      *)
(* external response                                                       *)

\* a Yahoo response: raises (yfinance throws), hist (<<>> when history is
\* empty, else <<last close>>), sharesOutstanding, alt (info.get('shares',
\* info.get('impliedSharesOutstanding'))), marketCap
\* SanityOk with an inclusive lower bound (1_000 <= market_cap)
SanityOkFrom1000(market_cap) == ~Less(market_cap, SANITY_LOW) /\ Less(market_cap, SANITY_HIGH)

\* 1_000 < market_cap < 1_000_000_000_000
SanityOk(market_cap) == Less(SANITY_LOW, market_cap) /\ Less(market_cap, SANITY_HIGH)

\* the local market_cap = close_price * shares, NoValue when it is not computed
price_times_shares(close_price, shares) ==
  IF TruthyPositive(shares) /\ close_price > 0 THEN Times(close_price, shares) ELSE NoValue

\* the sanity check on the computed value: what the strategy returns
sanity_checked(market_cap) ==
  IF market_cap # NoValue /\ SanityOk(market_cap) THEN market_cap ELSE NoValue

\* _get_yahoo_historical, up to the computation of market_cap
historical_market_cap(date, y) ==
  IF ~price_window_ok(date, 60) \/ y.raises THEN NoValue
  ELSE IF y.hist = <<>> THEN NoValue
  ELSE price_times_shares(y.hist[1], y.sharesOutstanding)

get_yahoo_historical(date, y) == sanity_checked(historical_market_cap(date, y))

\* _calculate_from_yahoo_data, up to the computation of market_cap
calculated_market_cap(date, y) ==
  IF ~price_window_ok(date, 90) \/ y.raises THEN NoValue
  ELSE IF y.hist = <<>> THEN NoValue
  ELSE LET shares == IF Falsy(y.sharesOutstanding) THEN y.alt ELSE y.sharesOutstanding
       IN  price_times_shares(y.hist[1], shares)

calculate_from_yahoo_data(date, y) == sanity_checked(calculated_market_cap(date, y))

get_yahoo_current(y) ==
  IF y.raises THEN NoValue
  ELSE IF TruthyPositive(y.marketCap) THEN y.marketCap ELSE NoValue

\* an FMP response: status (an HTTP status, or 0 when the request raised),
\* body ("quote": a non-empty list whose first element is a dict, "empty": [],
\* "error": a dict with 'Error Message', "bad": response.json() raises),
\* has (TRUE iff 'marketCap' is a key of the quote), marketCap
FmpQuoteValue(r) ==
  IF r.body = "quote" /\ r.has /\ TruthyPositive(r.marketCap) THEN r.marketCap ELSE NoValue

\* get_from_fmp where a 403 answer disables the strategy, as 401 and 429 do
get_from_fmp_disables_on_403(working, r) ==
  IF r.status \in {401, 403, 429} THEN [result |-> NoValue, working |-> FALSE]
  ELSE IF r.status = 200 THEN [result |-> FmpQuoteValue(r), working |-> working]
  ELSE [result |-> NoValue, working |-> working]

\* get_from_fmp where a 429 answer leaves the flag alone
get_from_fmp_keeps_on_429(working, r) ==
  IF r.status = 401 THEN [result |-> NoValue, working |-> FALSE]
  ELSE IF r.status = 200 THEN [result |-> FmpQuoteValue(r), working |-> working]
  ELSE [result |-> NoValue, working |-> working]

get_from_fmp(working, r) ==
  IF r.status = 401 THEN [result |-> NoValue, working |-> FALSE]
  ELSE IF r.status = 403 THEN [result |-> NoValue, working |-> working]
  ELSE IF r.status = 429 THEN [result |-> NoValue, working |-> FALSE]
  ELSE IF r.status = 200 THEN [result |-> FmpQuoteValue(r), working |-> working]
  ELSE [result |-> NoValue, working |-> working]

\* validation that takes any 200 answer for a success
validate_any_200(r) == r.status = 200

validate_fmp_api_key(r) ==
  r.status = 200 /\ r.body = "quote" /\ r.has

-----------------------------------------------------------------------------
(* Inputs: the responses of the external services, drawn from small sets.  *)
(* The collection run (Spec) draws market-cap responses from the sample    *)
(* sets; the resolver harness (SpecResolver) draws them from the wide      *)
(* sets, which hold the sanity-bound boundary values.                      *)

TickerNames == <<"ABCD", "WXYZ", "MNOP", "EFGH">>
Tickers     == { TickerNames[k] : k \in 1..Len(TickerNames) }

Yahoo(raises, hist, shares, alt, cap) ==
  [raises |-> raises, hist |-> hist, sharesOutstanding |-> shares, alt |-> alt,
   marketCap |-> cap]
Fmp(status, body, has, cap) ==
  [status |-> status, body |-> body, has |-> has, marketCap |-> cap]
\* no validation request was sent (no key)
NoValidation == Fmp(0, "unsent", FALSE, NoValue)

HistoricalSample ==
  { Yahoo(TRUE, <<>>, NoValue, NoValue, NoValue),
    Yahoo(FALSE, <<>>, NoValue, NoValue, NoValue),
    Yahoo(FALSE, <<10>>, Amount(5, 0), NoValue, NoValue) }
CalculatedSample ==
  { Yahoo(FALSE, <<>>, NoValue, NoValue, NoValue),
    Yahoo(FALSE, <<10>>, NoValue, Amount(5, 0), NoValue) }
CurrentSample ==
  { Yahoo(FALSE, <<>>, NoValue, NoValue, NoValue),
    Yahoo(FALSE, <<>>, NoValue, NoValue, MAX_MARKET_CAP) }
FmpSample ==
  { Fmp(401, "error", FALSE, NoValue),
    Fmp(403, "error", FALSE, NoValue),
    Fmp(200, "quote", TRUE, Amount(1999, 999999)) }

ShareCounts == { NoValue, Amount(0 - 1, 0), Amount(0, 0), Amount(0, 333), Amount(0, 1000), Amount(0, 1001),
                 Amount(333333, 333333), Amount(1000000, 0) }
HistoricalWide ==
  { Yahoo(TRUE, <<>>, NoValue, NoValue, NoValue), Yahoo(FALSE, <<>>, Amount(0, 1001), NoValue, NoValue) }
  \cup { Yahoo(FALSE, <<p>>, s, NoValue, NoValue) : p \in {0, 1, 3}, s \in ShareCounts }
CalculatedWide ==
  { Yahoo(TRUE, <<>>, NoValue, NoValue, NoValue), Yahoo(FALSE, <<>>, Amount(0, 1001), NoValue, NoValue) }
  \cup { Yahoo(FALSE, <<p>>, s, a, NoValue) :
            p \in {1, 3}, s \in {NoValue, Amount(0 - 1, 0), Amount(0, 0), Amount(0, 1000)},
            a \in {NoValue, Amount(0, 333), Amount(0, 1001), Amount(333333, 333333), Amount(1000000, 0)} }
CurrentWide ==
  { Yahoo(TRUE, <<>>, NoValue, NoValue, NoValue) }
  \cup { Yahoo(FALSE, <<>>, NoValue, NoValue, c) :
            c \in {NoValue, Amount(0, 0), Amount(0, 999), Amount(3000000, 0)} }
FmpWide ==
  { Fmp(st, "error", FALSE, NoValue) : st \in {0, 401, 403, 429, 500} }
  \cup { Fmp(200, b, FALSE, NoValue) : b \in {"empty", "error", "bad", "quote"} }
  \cup { Fmp(200, "quote", TRUE, c) : c \in {NoValue, Amount(0, 0), Amount(0, 999), Amount(2000, 0)} }
ValidationSample ==
  { Fmp(401, "error", FALSE, NoValue), Fmp(200, "quote", TRUE, Amount(3000000, 0)) }
ValidationResponses ==
  { Fmp(st, "error", FALSE, NoValue) : st \in {0, 401, 403, 429, 500} }
  \cup { Fmp(200, "quote", FALSE, NoValue), Fmp(200, "bad", FALSE, NoValue),
         Fmp(200, "quote", TRUE, NoValue), Fmp(200, "quote", TRUE, Amount(3000000, 0)) }

-----------------------------------------------------------------------------
(* OptimizedMarketCapFetcher.__init__ and get_market_cap                   *)

ZeroStats == [yahoo_current |-> 0, yahoo_historical |-> 0, fmp_api |-> 0,
              calculated |-> 0, failed |-> 0, total |-> 0]

\* the value __init__ leaves in self.fmp_api_working; r is the validation response
FetcherInit(key, r) == key /\ validate_fmp_api_key(r)

\* entry of get_market_cap without self.stats['total'] += 1
EnterGetMarketCapUncounted(date) ==
  /\ stats' = stats
  /\ date_arg' = date
  /\ result' = NoValue
  /\ source' = NoneStr
  /\ invoked' = <<>>
  /\ computed' = NoValue
  /\ pc' = "method1"

\* entry of get_market_cap
EnterGetMarketCap(date) ==
  /\ stats' = [stats EXCEPT !.total = @ + 1]
  /\ date_arg' = date
  /\ result' = NoValue
  /\ source' = NoneStr
  /\ invoked' = <<>>
  /\ computed' = NoValue
  /\ pc' = "method1"

\* Outcome without the 'is not None' test: whatever the strategy gave is returned
OutcomeUnchecked(name, r, nxt) ==
  /\ stats' = [stats EXCEPT ![name] = @ + 1]
  /\ result' = r
  /\ source' = name
  /\ pc' = "return"

\* Outcome without the return: a success is recorded and the cascade goes on
OutcomeFallThrough(name, r, nxt) ==
  IF r # NoValue
  THEN /\ stats' = [stats EXCEPT ![name] = @ + 1]
       /\ result' = r
       /\ source' = name
       /\ pc' = nxt
  ELSE /\ pc' = nxt
       /\ UNCHANGED <<stats, result, source>>

\* what a strategy's outcome r does to the call: return it, or go on to pc nxt
Outcome(name, r, nxt) ==
  IF r # NoValue
  THEN /\ stats' = [stats EXCEPT ![name] = @ + 1]
       /\ result' = r
       /\ source' = name
       /\ pc' = "return"
  ELSE /\ pc' = nxt
       /\ UNCHANGED <<stats, result, source>>

Method1(y) ==
  /\ pc = "method1"
  /\ invoked' = Append(invoked, "yahoo_historical")
  /\ computed' = historical_market_cap(date_arg, y)
  /\ Outcome("yahoo_historical", get_yahoo_historical(date_arg, y), "method2")
  /\ UNCHANGED <<cfgVars, fmp_api_working, date_arg, fmpVars, cacheVars, registryVars,
                 loopVars, outVars, ioVars>>

Method2Enabled == fmp_api_key /\ fmp_api_working

Method2(r) ==
  /\ pc = "method2"
  /\ Method2Enabled
  /\ invoked' = Append(invoked, "fmp_api")
  /\ fmp_requests' = fmp_requests + 1
  /\ fmp_status' = r.status
  /\ LET o == get_from_fmp(fmp_api_working, r)
     IN  /\ fmp_api_working' = o.working
         /\ Outcome("fmp_api", o.result, "method3")
  /\ UNCHANGED <<cfgVars, date_arg, computed, cacheVars, registryVars, loopVars, outVars,
                 ioVars>>

Method2Skip ==
  /\ pc = "method2"
  /\ ~Method2Enabled
  /\ pc' = "method3"
  /\ UNCHANGED <<cfgVars, fmp_api_working, stats, callVars, fmpVars, cacheVars,
                 registryVars, loopVars, outVars, ioVars>>

Method3(y) ==
  /\ pc = "method3"
  /\ invoked' = Append(invoked, "calculated")
  /\ computed' = calculated_market_cap(date_arg, y)
  /\ Outcome("calculated", calculate_from_yahoo_data(date_arg, y), "method4")
  /\ UNCHANGED <<cfgVars, fmp_api_working, date_arg, fmpVars, cacheVars, registryVars,
                 loopVars, outVars, ioVars>>

\* Method4 whose strategy lets an exception escape get_market_cap
Method4Uncaught(y) ==
  /\ pc = "method4"
  /\ invoked' = Append(invoked, "yahoo_current")
  /\ IF y.raises
     THEN /\ pc' = "raised"
          /\ UNCHANGED <<stats, result, source>>
     ELSE LET r == get_yahoo_current(y)
          IN  IF r # NoValue
              THEN Outcome("yahoo_current", r, "return")
              ELSE /\ stats' = [stats EXCEPT !.failed = @ + 1]
                   /\ result' = NoValue
                   /\ source' = "none"
                   /\ pc' = "return"
  /\ UNCHANGED <<cfgVars, fmp_api_working, date_arg, computed, fmpVars, cacheVars,
                 registryVars, loopVars, outVars, ioVars>>

Method4(y) ==
  /\ pc = "method4"
  /\ invoked' = Append(invoked, "yahoo_current")
  /\ LET r == get_yahoo_current(y)
     IN  IF r # NoValue
         THEN Outcome("yahoo_current", r, "return")
         ELSE /\ stats' = [stats EXCEPT !.failed = @ + 1]
              /\ result' = NoValue
              /\ source' = "none"
              /\ pc' = "return"
  /\ UNCHANGED <<cfgVars, fmp_api_working, date_arg, computed, fmpVars, cacheVars,
                 registryVars, loopVars, outVars, ioVars>>

-----------------------------------------------------------------------------
(* SECDelistingScraperOptimized: inputs                                    *)

NumEndpoints == 3

Item(cik_str, ticker) == [cik_str |-> cik_str, ticker |-> ticker]
\* registry bodies: companies 1..n with their tickers; and one body that lists
\* cik 1 twice
RegistryData ==
  { [k \in 1..n |-> Item(k, TickerNames[k])] : n \in 0..MaxCompanies }
  \cup { << Item(1, "ABCD"), Item(1, "WXYZ") >> }
RegistryResponses ==
  { [status |-> 200, good |-> TRUE, data |-> d] : d \in RegistryData }
  \cup { [status |-> 200, good |-> FALSE, data |-> <<Item(1, "ABCD")>>],
         [status |-> 404, good |-> TRUE, data |-> <<>>],
         [status |-> 0, good |-> TRUE, data |-> <<>>] }

Entry(form, filingDate) == [form |-> form, filingDate |-> filingDate]
Entries ==
  { Entry("25", START_DATE), Entry("25-NSE", END_DATE),
    Entry("25", DateString(2014, 12, 31, TRUE)), Entry("25-NSE", DateString(2025, 1, 1, TRUE)),
    Entry("10-K", DateString(2020, 6, 15, TRUE)), Entry("25", DateString(2021, 2, 29, TRUE)) }

Recent(form, hasDate, filingDate, hasAcc, acc, hasDoc, doc) ==
  [form |-> form, hasDate |-> hasDate, filingDate |-> filingDate,
   hasAcc |-> hasAcc, accessionNumber |-> acc, hasDoc |-> hasDoc, primaryDocument |-> doc]
Ids(n) == [k \in 1..n |-> k]
Forms(es) == [k \in 1..Len(es) |-> es[k].form]
Dates(es) == [k \in 1..Len(es) |-> es[k].filingDate]
EntrySeqs(S) == UNION { [1..n -> S] : n \in 0..MaxFilings }
WellFormed == { Recent(Forms(es), TRUE, Dates(es), TRUE, Ids(Len(es)), TRUE, Ids(Len(es))) :
                  es \in EntrySeqs(Entries) }
\* histories whose parallel sequences are missing or too short
Malformed ==
  UNION { { Recent(Forms(es), FALSE, <<>>, TRUE, Ids(Len(es)), TRUE, Ids(Len(es))),
            Recent(Forms(es), TRUE, SubSeq(Dates(es), 1, Len(es) - 1), TRUE, Ids(Len(es)), TRUE, Ids(Len(es))),
            Recent(Forms(es), TRUE, Dates(es), TRUE, Ids(Len(es) - 1), TRUE, Ids(Len(es))),
            Recent(Forms(es), TRUE, Dates(es), TRUE, Ids(Len(es)), FALSE, <<>>) } :
          es \in EntrySeqs({Entry("25", START_DATE)}) \ {<<>>} }
EmptyRecent == Recent(<<>>, FALSE, <<>>, FALSE, <<>>, FALSE, <<>>)
Submission(raises, kind, recent) == [raises |-> raises, kind |-> kind, recent |-> recent]
SubmissionResponses ==
  { Submission(TRUE, "empty", EmptyRecent),
    Submission(TRUE, "ok", Recent(<<"25">>, TRUE, <<START_DATE>>, TRUE, <<1>>, TRUE, <<1>>)) }
  \cup { Submission(FALSE, k, EmptyRecent) : k \in {"empty", "no_filings", "no_recent"} }
  \cup { Submission(FALSE, "ok", r) : r \in WellFormed \cup Malformed }

ExchangeInfo(raises, exchange) == [raises |-> raises, exchange |-> exchange]
\* info['exchange'] is the sequence of its characters: 'nms', 'PCX', 'OTC', ''
ExchangeResponses ==
  { ExchangeInfo(TRUE, <<>>) }
  \cup { ExchangeInfo(FALSE, x) :
            x \in { <<"n", "m", "s">>, <<"P", "C", "X">>, <<"O", "T", "C">>, <<>> } }

-----------------------------------------------------------------------------
(* SECDelistingScraperOptimized: operations                                *)

\* str.upper() on a string of ASCII characters: each lower-case letter is
\* replaced by its capital, every other character is kept
LowerCase == <<"a", "b", "c", "d", "e", "f", "g", "h", "i", "j", "k", "l", "m",
               "n", "o", "p", "q", "r", "s", "t", "u", "v", "w", "x", "y", "z">>
UpperCase == <<"A", "B", "C", "D", "E", "F", "G", "H", "I", "J", "K", "L", "M",
               "N", "O", "P", "Q", "R", "S", "T", "U", "V", "W", "X", "Y", "Z">>
upper_char(c) ==
  IF \E k \in 1..Len(LowerCase) : LowerCase[k] = c
  THEN UpperCase[CHOOSE k \in 1..Len(LowerCase) : LowerCase[k] = c]
  ELSE c
upper(x) == [k \in 1..Len(x) |-> upper_char(x[k])]

\* exchange_mapping.get(exchange_raw)
exchange_mapping(x) ==
  CASE x \in { <<"N", "Y", "Q">>, <<"N", "Y", "S", "E">>, <<"N", "Y", "E">> } -> "NYSE"
    [] x \in { <<"N", "M", "S">>, <<"N", "A", "S", "D", "A", "Q">>, <<"N", "G", "M">>,
               <<"N", "A", "S">> } -> "NASDAQ"
    [] x \in { <<"A", "S", "E">>, <<"A", "M", "E", "X">> } -> "AMEX"
    [] x = <<"P", "C", "X">> -> "NYSE ARCA"
    [] OTHER -> NoneStr

\* the external lookup of _get_ticker_exchange (cache miss)
lookup_exchange(x) == IF x.raises THEN NoneStr ELSE exchange_mapping(upper(x.exchange))

\* get_company_tickers: the dict built from one 200 response
RECURSIVE build_registry(_, _)
build_registry(data, acc) ==
  IF data = <<>> THEN acc
  ELSE LET item == Head(data)
           entry == [cik |-> item.cik_str, ticker |-> item.ticker]
           at == { k \in 1..Len(acc) : acc[k].cik = item.cik_str }
       IN  build_registry(Tail(data),
             IF at = {} THEN Append(acc, entry)
             ELSE [k \in 1..Len(acc) |-> IF k \in at THEN entry ELSE acc[k]])

\* a response gives the registry iff its status is 200 and its body parses and
\* every item has its fields (good); data holds the items read until then
endpoint_ok(resp) == resp.status = 200 /\ resp.good

\* a failed endpoint whose partly built dict is kept and returned
registry_kept_after_failure(resp) == build_registry(resp.data, <<>>)

\* what a failed endpoint leaves of the registry: the dict built so far is dropped
registry_after_failure(resp) == <<>>

\* get_submissions_for_cik without raise_for_status: an error body is returned
get_submissions_unguarded(resp) == [kind |-> resp.kind, recent |-> resp.recent]

\* get_submissions_for_cik: {} on any exception
get_submissions_for_cik(resp) ==
  IF resp.raises THEN [kind |-> "empty", recent |-> EmptyRecent]
  ELSE [kind |-> resp.kind, recent |-> resp.recent]

\* 'not submissions or "filings" not in submissions', then 'not recent_filings'
no_history(sub) == sub.kind \in {"empty", "no_filings", "no_recent"}

\* The locals of a finished loop iteration or call are dead; the model clears
\* them (submissions, i, filing_info, and get_market_cap's date, result, source).
NoSubmissions == [kind |-> "unset", recent |-> EmptyRecent]
NoFiling == [ticker |-> "", cik |-> 0, exchange |-> NoneStr, form_type |-> "",
             filing_date |-> <<>>, accession_number |-> 0, primary_document |-> 0,
             market_cap |-> NoValue, market_cap_source |-> NoneStr]

\* main: scraper = SECDelistingScraperOptimized(...), without an FMP key
ConstructNoKey ==
  /\ pc = "main"
  /\ ~fmp_api_key
  /\ validation' = NoValidation
  /\ fmp_api_working' = FALSE
  /\ stats' = ZeroStats
  /\ target_exchanges' = IF target_exchanges = {} THEN DEFAULT_EXCHANGES ELSE target_exchanges
  /\ ticker_to_exchange' = <<>>
  /\ pc' = "registry"
  /\ UNCHANGED <<fmp_api_key, callVars, fmpVars, lookups, registryVars, loopVars,
                 outVars, ioVars>>

\* the same with a key: the constructor validates it with one request
ConstructWithKey(r) ==
  /\ pc = "main"
  /\ fmp_api_key
  /\ validation' = r
  /\ fmp_api_working' = FetcherInit(fmp_api_key, r)
  /\ stats' = ZeroStats
  /\ target_exchanges' = IF target_exchanges = {} THEN DEFAULT_EXCHANGES ELSE target_exchanges
  /\ ticker_to_exchange' = <<>>
  /\ pc' = "registry"
  /\ UNCHANGED <<fmp_api_key, callVars, fmpVars, lookups, registryVars, loopVars,
                 outVars, ioVars>>

\* get_company_tickers: one pass of the loop over the endpoints
TryEndpoint(resp) ==
  /\ pc = "registry"
  /\ IF endpoint_ok(resp)
     THEN /\ cik_to_ticker' = build_registry(resp.data, <<>>)
          /\ pc' = "loop"
          /\ endpoint' = 0
     ELSE /\ endpoint' = endpoint + 1
          /\ cik_to_ticker' = registry_after_failure(resp)
          /\ pc' = IF endpoint' = NumEndpoints THEN "loop" ELSE "registry"
  /\ UNCHANGED <<cfgVars, fmp_api_working, stats, callVars, fmpVars, cacheVars,
                 loopVars, outVars, ioVars>>

\* the for loop's head and the fetch of the next company's history
FetchSubmissions(resp) ==
  /\ pc = "loop"
  /\ processed < Len(cik_to_ticker)
  /\ processed' = processed + 1
  /\ submissions' = get_submissions_for_cik(resp)
  /\ fetch_error' = resp.raises
  /\ i' = 0
  /\ pc' = IF no_history(submissions') THEN "loop" ELSE "scan"
  /\ UNCHANGED <<cfgVars, fmp_api_working, stats, callVars, fmpVars, cacheVars,
                 registryVars, filing_info, outVars, ioVars>>

\* the registry is exhausted: find_form25_filings_with_market_cap returns
ReturnFilings ==
  /\ pc = "loop"
  /\ processed = Len(cik_to_ticker)
  /\ pc' = "collected"
  /\ UNCHANGED <<cfgVars, fmp_api_working, stats, callVars, fmpVars, cacheVars,
                 registryVars, loopVars, outVars, ioVars>>

\* the date test with both bounds exclusive
InRangeExclusive(filing_date) ==
  /\ ~DateLeq(strptime(filing_date), strptime(START_DATE))
  /\ ~DateLeq(strptime(END_DATE), strptime(filing_date))

InRange(filing_date) ==
  /\ DateLeq(strptime(START_DATE), strptime(filing_date))
  /\ DateLeq(strptime(filing_date), strptime(END_DATE))

\* where the inner loop goes from entry i: "sleep" (no entry left), "raised"
\* (an exception leaves the function), "next" (continue) or "exchange"
scan_step(recent, k) ==
  IF k >= Len(recent.form) THEN "sleep"
  ELSE IF ~recent.hasDate \/ k >= Len(recent.filingDate) THEN "raised"
  ELSE IF recent.form[k + 1] \notin Form25Types THEN "next"
  ELSE IF ~strptime_ok(recent.filingDate[k + 1]) THEN "raised"
  ELSE IF ~InRange(recent.filingDate[k + 1]) THEN "next"
  ELSE "exchange"

ScanFiling ==
  /\ pc = "scan"
  /\ LET step == scan_step(submissions.recent, i)
     IN  /\ pc' = IF step = "next" THEN "scan" ELSE step
         /\ i' = IF step = "next" THEN i + 1 ELSE i
  /\ UNCHANGED <<cfgVars, fmp_api_working, stats, callVars, fmpVars, cacheVars,
                 registryVars, processed, submissions, fetch_error, filing_info, outVars,
                 ioVars>>

Company == cik_to_ticker[processed]

\* AfterExchange without the target-set test: only an unresolved exchange is skipped
AfterExchangeUnfiltered(exchange) ==
  LET recent == submissions.recent
  IN  IF exchange = NoneStr
      THEN /\ i' = i + 1
           /\ pc' = "scan"
           /\ UNCHANGED filing_info
      ELSE IF \/ ~recent.hasAcc \/ i >= Len(recent.accessionNumber)
              \/ ~recent.hasDoc \/ i >= Len(recent.primaryDocument)
      THEN /\ pc' = "raised"
           /\ UNCHANGED <<i, filing_info>>
      ELSE /\ filing_info' = [ticker |-> Company.ticker, cik |-> Company.cik,
                               exchange |-> exchange,
                               form_type |-> recent.form[i + 1],
                               filing_date |-> recent.filingDate[i + 1],
                               accession_number |-> recent.accessionNumber[i + 1],
                               primary_document |-> recent.primaryDocument[i + 1],
                               market_cap |-> NoValue, market_cap_source |-> NoneStr]
           /\ pc' = "call"
           /\ UNCHANGED i

\* the exchange filter and the construction of filing_info
AfterExchange(exchange) ==
  LET recent == submissions.recent
  IN  IF exchange # NoneStr /\ exchange \notin target_exchanges
      THEN /\ i' = i + 1
           /\ pc' = "scan"
           /\ UNCHANGED filing_info
      ELSE IF exchange = NoneStr
      THEN /\ i' = i + 1
           /\ pc' = "scan"
           /\ UNCHANGED filing_info
      ELSE IF \/ ~recent.hasAcc \/ i >= Len(recent.accessionNumber)
              \/ ~recent.hasDoc \/ i >= Len(recent.primaryDocument)
      THEN /\ pc' = "raised"
           /\ UNCHANGED <<i, filing_info>>
      ELSE /\ filing_info' = [ticker |-> Company.ticker, cik |-> Company.cik,
                               exchange |-> exchange,
                               form_type |-> recent.form[i + 1],
                               filing_date |-> recent.filingDate[i + 1],
                               accession_number |-> recent.accessionNumber[i + 1],
                               primary_document |-> recent.primaryDocument[i + 1],
                               market_cap |-> NoValue, market_cap_source |-> NoneStr]
           /\ pc' = "call"
           /\ UNCHANGED i

\* _get_ticker_exchange answers from the cache
ExchangeCached ==
  /\ pc = "exchange"
  /\ Company.ticker \in DOMAIN ticker_to_exchange
  /\ AfterExchange(ticker_to_exchange[Company.ticker])
  /\ UNCHANGED <<cfgVars, fmp_api_working, stats, callVars, fmpVars, cacheVars,
                 registryVars, processed, submissions, fetch_error, outVars, ioVars>>

\* cache_put that stores an unresolved result as well
cache_put_unresolved(cache, ticker, exchange) ==
  [t \in DOMAIN cache \cup {ticker} |-> IF t = ticker THEN exchange ELSE cache[t]]

cache_put(cache, ticker, exchange) ==
  IF exchange # NoneStr
  THEN [t \in DOMAIN cache \cup {ticker} |-> IF t = ticker THEN exchange ELSE cache[t]]
  ELSE cache

\* _get_ticker_exchange asks Yahoo Finance
ExchangeLookup(x) ==
  /\ pc = "exchange"
  /\ Company.ticker \notin DOMAIN ticker_to_exchange
  /\ lookups' = [lookups EXCEPT ![Company.ticker] = @ + 1]
  /\ ticker_to_exchange' = cache_put(ticker_to_exchange, Company.ticker, lookup_exchange(x))
  /\ AfterExchange(lookup_exchange(x))
  /\ UNCHANGED <<cfgVars, fmp_api_working, stats, callVars, fmpVars,
                 registryVars, processed, submissions, fetch_error, outVars, ioVars>>

\* the collector calls get_market_cap(ticker, filing_date, title)
CallGetMarketCap ==
  /\ pc = "call"
  /\ EnterGetMarketCap(filing_info.filing_date)
  /\ UNCHANGED <<cfgVars, fmp_api_working, fmpVars, cacheVars, registryVars, loopVars,
                 outVars, ioVars>>

\* AttachMarketCap that leaves the two market-cap fields as they were built
AttachMarketCapSkipped ==
  /\ pc = "return"
  /\ pc' = "append"
  /\ UNCHANGED <<cfgVars, fmp_api_working, stats, callVars, fmpVars, cacheVars,
                 registryVars, loopVars, outVars, ioVars>>

\* the returned pair is stored in filing_info
AttachMarketCap ==
  /\ pc = "return"
  /\ filing_info' = [filing_info EXCEPT !.market_cap = result, !.market_cap_source = source]
  /\ pc' = "append"
  /\ UNCHANGED <<cfgVars, fmp_api_working, stats, callVars, fmpVars, cacheVars,
                 registryVars, processed, submissions, fetch_error, i, outVars, ioVars>>

\* is_small_cap with <= for <
is_small_cap_inclusive(market_cap, max_market_cap) ==
  market_cap # NoValue /\ ~Less(max_market_cap, market_cap)

is_small_cap(market_cap, max_market_cap) ==
  market_cap # NoValue /\ Less(market_cap, max_market_cap)

AppendFiling ==
  /\ pc = "append"
  /\ all_filings' = Append(all_filings, filing_info)
  /\ filings_with_market_cap' =
       IF is_small_cap(result, MAX_MARKET_CAP)
       THEN Append(filings_with_market_cap, filing_info)
       ELSE filings_with_market_cap
  /\ i' = i + 1
  /\ pc' = "scan"
  /\ filing_info' = NoFiling
  /\ date_arg' = <<>>
  /\ result' = NoValue
  /\ source' = NoneStr
  /\ invoked' = <<>>
  /\ computed' = NoValue
  /\ UNCHANGED <<cfgVars, fmp_api_working, stats, fmpVars, cacheVars, registryVars,
                 processed, submissions, fetch_error, ioVars>>

\* time.sleep(0.11) at the end of the outer loop's body
Sleep ==
  /\ pc = "sleep"
  /\ sleeps' = sleeps + 1
  /\ pc' = "loop"
  /\ submissions' = NoSubmissions
  /\ fetch_error' = FALSE
  /\ i' = 0
  /\ UNCHANGED <<cfgVars, fmp_api_working, stats, callVars, fmpVars, cacheVars,
                 registryVars, processed, filing_info, outVars, files>>

-----------------------------------------------------------------------------
(* save_to_csv and main                                                    *)

\* a < b for two strings: the first differing character decides, a proper
\* prefix is smaller
DateStrLess(a, b) ==
  \E k \in 1..(Len(b)) :
    /\ k <= Len(a) + 1
    /\ \A j \in 1..(k - 1) : a[j] = b[j]
    /\ (k = Len(a) + 1 \/ a[k] < b[k])
\* the tickers of the model in string order
TickerOrder == <<"ABCD", "EFGH", "MNOP", "WXYZ">>
TickerRank(t) == CHOOSE k \in 1..Len(TickerOrder) : TickerOrder[k] = t

\* df.sort_values('filing_date', ascending=False), rows of equal date in input order
RECURSIVE sort_by_date_desc(_, _)
sort_by_date_desc(rows, acc) ==
  IF rows = <<>> THEN acc
  ELSE LET e == Head(rows)
           before == { k \in 1..Len(acc) : DateStrLess(acc[k].filing_date, e.filing_date) }
           at == IF before = {} THEN Len(acc) + 1
                 ELSE CHOOSE k \in before : \A j \in before : k <= j
       IN  sort_by_date_desc(Tail(rows),
             SubSeq(acc, 1, at - 1) \o <<e>> \o SubSeq(acc, at, Len(acc)))

\* df.drop_duplicates(subset=['ticker'], keep='first')
RECURSIVE drop_duplicates(_, _)
drop_duplicates(rows, acc) ==
  IF rows = <<>> THEN acc
  ELSE drop_duplicates(Tail(rows),
         IF \E k \in 1..Len(acc) : acc[k].ticker = Head(rows).ticker
         THEN acc ELSE Append(acc, Head(rows)))

\* df_unique[['ticker']].sort_values('ticker')
RECURSIVE sort_tickers(_, _)
sort_tickers(rows, acc) ==
  IF rows = <<>> THEN acc
  ELSE LET t == Head(rows).ticker
           after == { k \in 1..Len(acc) : TickerRank(t) < TickerRank(acc[k]) }
           at == IF after = {} THEN Len(acc) + 1
                 ELSE CHOOSE k \in after : \A j \in after : k <= j
       IN  sort_tickers(Tail(rows),
             SubSeq(acc, 1, at - 1) \o <<t>> \o SubSeq(acc, at, Len(acc)))

NoFiles == [written |-> {}, all |-> <<>>, all_symbols |-> <<>>,
            small |-> <<>>, small_symbols |-> <<>>]

df_unique(filings) == drop_duplicates(sort_by_date_desc(filings, <<>>), <<>>)

\* save_to_csv(filings, output_file); which is "all" or "small"
save_to_csv(fs, filings, which) ==
  IF filings = <<>> THEN fs
  ELSE IF which = "all"
  THEN [fs EXCEPT !.written = @ \cup {"all", "all_symbols"},
                  !.all = df_unique(filings),
                  !.all_symbols = sort_tickers(df_unique(filings), <<>>)]
  ELSE [fs EXCEPT !.written = @ \cup {"small", "small_symbols"},
                  !.small = df_unique(filings),
                  !.small_symbols = sort_tickers(df_unique(filings), <<>>)]

\* main: 'if not all_filings: return'
MainNoFilings ==
  /\ pc = "collected"
  /\ all_filings = <<>>
  /\ pc' = "done"
  /\ UNCHANGED <<cfgVars, fmp_api_working, stats, callVars, fmpVars, cacheVars,
                 registryVars, loopVars, outVars, ioVars>>

\* main: the two save_to_csv calls
MainSave ==
  /\ pc = "collected"
  /\ all_filings # <<>>
  /\ files' = save_to_csv(save_to_csv(files, all_filings, "all"),
                          filings_with_market_cap, "small")
  /\ pc' = "done"
  /\ UNCHANGED <<cfgVars, fmp_api_working, stats, callVars, fmpVars, cacheVars,
                 registryVars, loopVars, outVars, sleeps>>

-----------------------------------------------------------------------------
(* The program: main() *)

Init ==
  /\ pc = "main"
  /\ fmp_api_key \in BOOLEAN
  /\ target_exchanges = TARGET_EXCHANGES
  /\ validation = NoValidation
  /\ fmp_api_working = FALSE
  /\ stats = ZeroStats
  /\ date_arg = <<>>
  /\ result = NoValue
  /\ source = NoneStr
  /\ invoked = <<>>
  /\ computed = NoValue
  /\ fmp_status = 0
  /\ fmp_requests = 0
  /\ ticker_to_exchange = <<>>
  /\ lookups = [t \in Tickers |-> 0]
  /\ endpoint = 0
  /\ cik_to_ticker = <<>>
  /\ processed = 0
  /\ submissions = NoSubmissions
  /\ fetch_error = FALSE
  /\ i = 0
  /\ filing_info = NoFiling
  /\ all_filings = <<>>
  /\ filings_with_market_cap = <<>>
  /\ sleeps = 0
  /\ files = NoFiles

Next ==
  \/ ConstructNoKey
  \/ \E r \in ValidationSample : ConstructWithKey(r)
  \/ \E resp \in RegistryResponses : TryEndpoint(resp)
  \/ \E resp \in SubmissionResponses : FetchSubmissions(resp)
  \/ ReturnFilings
  \/ ScanFiling
  \/ ExchangeCached
  \/ \E x \in ExchangeResponses : ExchangeLookup(x)
  \/ CallGetMarketCap
  \/ \E y \in HistoricalSample : Method1(y)
  \/ \E r \in FmpSample : Method2(r)
  \/ Method2Skip
  \/ \E y \in CalculatedSample : Method3(y)
  \/ \E y \in CurrentSample : Method4(y)
  \/ AttachMarketCap
  \/ AppendFiling
  \/ Sleep
  \/ MainNoFilings
  \/ MainSave

Spec == Init /\ [][Next]_vars

-----------------------------------------------------------------------------
(* The resolver alone: a fetcher is constructed and get_market_cap is      *)
(* called up to MaxCalls times, with responses from the wide sets.         *)

\* '2020-06-15'; '2021-02-29', no calendar day; '0001-03-15', 74 days after
\* datetime.min: 60 days before it is a date, 90 days before it is not
CallDates == { DateString(2020, 6, 15, TRUE), DateString(2021, 2, 29, TRUE),
               DateString(1, 3, 15, TRUE) }

NewFetcherNoKey ==
  /\ pc = "new"
  /\ ~fmp_api_key
  /\ validation' = NoValidation
  /\ fmp_api_working' = FALSE
  /\ stats' = ZeroStats
  /\ pc' = "idle"
  /\ UNCHANGED <<fmp_api_key, target_exchanges, callVars, fmpVars, cacheVars, registryVars, loopVars, outVars,
                 ioVars>>

NewFetcherWithKey(r) ==
  /\ pc = "new"
  /\ fmp_api_key
  /\ validation' = r
  /\ fmp_api_working' = FetcherInit(fmp_api_key, r)
  /\ stats' = ZeroStats
  /\ pc' = "idle"
  /\ UNCHANGED <<fmp_api_key, target_exchanges, callVars, fmpVars, cacheVars, registryVars, loopVars, outVars,
                 ioVars>>

ResolverCall(date) ==
  /\ pc = "idle"
  /\ stats.total < MaxCalls
  /\ EnterGetMarketCap(date)
  /\ UNCHANGED <<cfgVars, fmp_api_working, fmpVars, cacheVars, registryVars, loopVars,
                 outVars, ioVars>>

\* the caller has read the returned pair
ResolverReturn ==
  /\ pc = "return"
  /\ pc' = "idle"
  /\ date_arg' = <<>>
  /\ result' = NoValue
  /\ source' = NoneStr
  /\ invoked' = <<>>
  /\ computed' = NoValue
  /\ UNCHANGED <<cfgVars, fmp_api_working, stats, fmpVars, cacheVars, registryVars,
                 loopVars, outVars, ioVars>>

InitResolver ==
  /\ pc = "new"
  /\ fmp_api_key \in BOOLEAN
  /\ target_exchanges = TARGET_EXCHANGES
  /\ validation = NoValidation
  /\ fmp_api_working = FALSE
  /\ stats = ZeroStats
  /\ date_arg = <<>>
  /\ result = NoValue
  /\ source = NoneStr
  /\ invoked = <<>>
  /\ computed = NoValue
  /\ fmp_status = 0
  /\ fmp_requests = 0
  /\ ticker_to_exchange = <<>>
  /\ lookups = [t \in Tickers |-> 0]
  /\ endpoint = 0
  /\ cik_to_ticker = <<>>
  /\ processed = 0
  /\ submissions = NoSubmissions
  /\ fetch_error = FALSE
  /\ i = 0
  /\ filing_info = NoFiling
  /\ all_filings = <<>>
  /\ filings_with_market_cap = <<>>
  /\ sleeps = 0
  /\ files = NoFiles

NextResolver ==
  \/ NewFetcherNoKey
  \/ \E r \in ValidationResponses : NewFetcherWithKey(r)
  \/ \E d \in CallDates : ResolverCall(d)
  \/ \E y \in HistoricalWide : Method1(y)
  \/ \E r \in FmpWide : Method2(r)
  \/ Method2Skip
  \/ \E y \in CalculatedWide : Method3(y)
  \/ \E y \in CurrentWide : Method4(y)
  \/ ResolverReturn

SpecResolver == InitResolver /\ [][NextResolver]_vars

-----------------------------------------------------------------------------
(* save_to_csv alone: it is called once with a list of up to MaxRows       *)
(* filings whose dates strptime accepts and the date range admits.         *)

SaveDates == { START_DATE, END_DATE, DateString(2024, 9, 30, FALSE) }
SaveRow(ticker, filing_date) ==
  [NoFiling EXCEPT !.ticker = ticker, !.cik = TickerRank(ticker), !.exchange = "NYSE",
                   !.form_type = "25", !.filing_date = filing_date,
                   !.market_cap_source = "none"]
SaveRows == { SaveRow(t, d) : t \in {"WXYZ", "ABCD"}, d \in SaveDates }

SaveToCsv ==
  /\ pc = "save"
  /\ files' = save_to_csv(files, all_filings, "all")
  /\ pc' = "saved"
  /\ UNCHANGED <<cfgVars, fmp_api_working, stats, callVars, fmpVars, cacheVars,
                 registryVars, loopVars, outVars, sleeps>>

InitSave ==
  /\ pc = "save"
  /\ fmp_api_key = FALSE
  /\ target_exchanges = TARGET_EXCHANGES
  /\ validation = NoValidation
  /\ fmp_api_working = FALSE
  /\ stats = ZeroStats
  /\ date_arg = <<>>
  /\ result = NoValue
  /\ source = NoneStr
  /\ invoked = <<>>
  /\ computed = NoValue
  /\ fmp_status = 0
  /\ fmp_requests = 0
  /\ ticker_to_exchange = <<>>
  /\ lookups = [t \in Tickers |-> 0]
  /\ endpoint = 0
  /\ cik_to_ticker = <<>>
  /\ processed = 0
  /\ submissions = NoSubmissions
  /\ fetch_error = FALSE
  /\ i = 0
  /\ filing_info = NoFiling
  /\ all_filings \in UNION { [1..n -> SaveRows] : n \in 0..MaxRows }
  /\ filings_with_market_cap = <<>>
  /\ sleeps = 0
  /\ files = NoFiles

NextSave == SaveToCsv

SpecSave == InitSave /\ [][NextSave]_vars

-----------------------------------------------------------------------------
(* Properties *)

SeqRange(s)  == { s[k] : k \in 1..Len(s) }
OutputEvents == SeqRange(all_filings) \cup SeqRange(filings_with_market_cap)
SourceNames  == Sources \cup {"none"}
InStrategy   == pc \in {"method1", "method2", "method3", "method4"}

(* C1: for every return of get_market_cap, and for every event in all_filings
   or filings_with_market_cap, the market cap is present iff the source is not
   "none", and the source is one of the four strategy names or "none". *)
C1_PresentIffSourced ==
  /\ pc = "return" =>
       /\ source \in SourceNames
       /\ (result # NoValue) <=> (source # "none")
  /\ \A e \in OutputEvents :
       /\ e.market_cap_source \in SourceNames
       /\ (e.market_cap # NoValue) <=> (e.market_cap_source # "none")

C1_Witness ==
  /\ pc = "done"
  /\ \E e1, e2 \in SeqRange(all_filings) :
       /\ e1.market_cap_source = "none" /\ e1.market_cap = NoValue
       /\ e2.market_cap_source = "calculated" /\ e2.market_cap = Amount(50, 0)

(* C2: an event appended to all_filings is in filings_with_market_cap iff its
   market cap is present and strictly below 2,000,000,000: the small-cap list
   is exactly the sublist of all_filings with such a market cap. *)
C2_SmallCapIff ==
  LET below(e) == e.market_cap # NoValue /\ e.market_cap[1] < 2000
  IN  /\ filings_with_market_cap = SelectSeq(all_filings, below)
      /\ \A e \in SeqRange(filings_with_market_cap) : below(e)

C2_Witness ==
  /\ pc = "done"
  /\ \E e \in SeqRange(all_filings) : e.market_cap = Amount(2000, 0)
  /\ \E e \in SeqRange(all_filings) : e.market_cap = NoValue
  /\ \E e \in SeqRange(filings_with_market_cap) : e.market_cap = Amount(1999, 999999)

(* C3: within one get_market_cap call the strategies are invoked in the order
   yahoo_historical, fmp_api, calculated, yahoo_current, the first one always
   first; no strategy is invoked once one has succeeded, so the call returns
   the result of the last strategy it invoked, and a success of strategy 1
   means no other strategy was invoked. *)
Rank(name) ==
  CASE name = "yahoo_historical" -> 1
    [] name = "fmp_api" -> 2
    [] name = "calculated" -> 3
    [] OTHER -> 4

C3_FixedOrder ==
  /\ \A a, b \in 1..Len(invoked) : a < b => Rank(invoked[a]) < Rank(invoked[b])
  /\ invoked # <<>> => invoked[1] = "yahoo_historical"
  /\ InStrategy => result = NoValue /\ source = NoneStr
  /\ pc = "return" /\ source \in Sources =>
       invoked # <<>> /\ invoked[Len(invoked)] = source
  /\ pc = "return" /\ source = "yahoo_historical" => invoked = <<"yahoo_historical">>
  /\ pc = "return" /\ source = "none" =>
       invoked \in { <<"yahoo_historical", "calculated", "yahoo_current">>,
                     <<"yahoo_historical", "fmp_api", "calculated", "yahoo_current">> }

C3_Witness ==
  /\ pc = "return"
  /\ source = "yahoo_historical"
  /\ invoked = <<"yahoo_historical">>
  /\ Method2Enabled
  /\ stats.total = 2

(* C4: once an FMP quote request made by get_market_cap is answered 401 or
   429, the enabled flag is false; the flag, once false after construction,
   stays false for the rest of the run, no further FMP request is issued, and
   every later call passes from strategy 1 to strategy 3 without invoking
   strategy 2. *)
C4_PersistentDowngrade ==
  [][ /\ (fmp_requests' # fmp_requests /\ fmp_status' \in {401, 429}) => ~fmp_api_working'
      /\ (pc \notin {"main", "new"} /\ ~fmp_api_working) =>
            /\ ~fmp_api_working'
            /\ fmp_requests' = fmp_requests
            /\ invoked' # Append(invoked, "fmp_api")
      /\ (pc = "method2" /\ ~fmp_api_working) => pc' = "method3" ]_vars

C4_Witness ==
  /\ pc = "return"
  /\ fmp_api_key
  /\ ~fmp_api_working
  /\ fmp_status = 429
  /\ fmp_requests = 1
  /\ stats.total = 3
  /\ invoked = <<"yahoo_historical", "calculated", "yahoo_current">>

PriceSharesSources == {"yahoo_historical", "calculated"}
\* the price x shares strategy that computed the value returned it
Accepted == pc = "return" /\ source \in PriceSharesSources /\ result = computed
\* the strategy that computed the value failed and the cascade went on
FellThrough ==
  \/ pc \in {"method2", "method3", "method4"}
  \/ pc = "return" /\ source \notin PriceSharesSources

(* C5 as stated: a computed market cap of 999 is rejected, 1,000 is accepted,
   1x10^12 is rejected and 999,999,999,999 is accepted. *)
C5_AsStated ==
  /\ computed = Amount(0, 999) => FellThrough
  /\ computed = Amount(0, 1000) => Accepted
  /\ computed = Amount(1000000, 0) => FellThrough
  /\ computed = Amount(999999, 999999) => Accepted

(* C5 (amended): in the price x shares strategies a computed market cap is
   accepted iff it lies strictly between 1,000 and 1x10^12: 999 and exactly
   1,000 are rejected, 1,001 is accepted, 999,999,999,999 is accepted and
   1x10^12 is rejected; a rejected value makes the strategy fail and the
   cascade go on to the next strategy. *)
C5_SanityBounds ==
  /\ computed \in {Amount(0, 999), Amount(0, 1000), Amount(1000000, 0)} =>
        FellThrough /\ ~Accepted
  /\ computed \in {Amount(0, 1001), Amount(999999, 999999)} => Accepted
  /\ computed # NoValue => (Accepted \/ FellThrough)
  /\ Accepted => computed[1] < 1000000 /\ (computed[1] > 0 \/ computed[2] > 1000)

C5_Witness ==
  /\ pc = "return"
  /\ computed = Amount(0, 1000)
  /\ invoked = <<"yahoo_historical", "calculated", "yahoo_current">>
  /\ source = "none"

\* the exchange _get_ticker_exchange returns for ticker t, given the cache
Resolved(cache, t) == IF t \in DOMAIN cache THEN cache[t] ELSE NoneStr
InGetMarketCap == InStrategy \/ pc \in {"call", "return", "append"}

(* C6: every event in all_filings and filings_with_market_cap carries the
   exchange resolved for its ticker, a member of the target set, and market-cap
   resolution runs only for such a filing; when the exchange of a matching
   filing resolves outside the target set or is not resolved, the filing is
   skipped: both output lists and the resolver's counters stay as they are. *)
C6_ExchangeHardFilter ==
  /\ [](/\ \A e \in OutputEvents :
             /\ e.exchange # NoneStr
             /\ e.exchange \in target_exchanges
             /\ e.exchange = Resolved(ticker_to_exchange, e.ticker)
         /\ InGetMarketCap =>
             /\ filing_info.exchange \in target_exchanges
             /\ filing_info.exchange = Resolved(ticker_to_exchange, filing_info.ticker))
  /\ [][ (pc = "exchange" /\
            Resolved(ticker_to_exchange', Company.ticker) \notin target_exchanges) =>
              /\ pc' = "scan"
              /\ i' = i + 1
              /\ UNCHANGED <<all_filings, filings_with_market_cap, stats, filing_info>> ]_vars

C6_Witness ==
  /\ pc = "done"
  /\ processed = 2
  /\ Resolved(ticker_to_exchange, "ABCD") = "NYSE ARCA"
  /\ lookups["ABCD"] = 1
  /\ Resolved(ticker_to_exchange, "WXYZ") = NoneStr
  /\ lookups["WXYZ"] = 2
  /\ all_filings = <<>>
  /\ filings_with_market_cap = <<>>
  /\ stats.total = 0

(* C7: when all three registry endpoints have failed, the registry is empty,
   no filing history is fetched, no exchange is looked up, no market cap is
   resolved, both output lists are empty and no file is written, up to the
   end of the run. *)
C7_RegistryFailure ==
  endpoint = NumEndpoints =>
    /\ pc \in {"loop", "collected", "done"}
    /\ cik_to_ticker = <<>>
    /\ processed = 0
    /\ submissions = NoSubmissions
    /\ \A t \in Tickers : lookups[t] = 0
    /\ stats = ZeroStats
    /\ fmp_requests = 0
    /\ all_filings = <<>>
    /\ filings_with_market_cap = <<>>
    /\ sleeps = 0
    /\ files = NoFiles

C7_Witness ==
  /\ endpoint = NumEndpoints
  /\ pc = "done"
  /\ files.written = {}

(* C8: when the fetch of a company's filing history fails (an exception or
   HTTP error, caught by get_submissions_for_cik) or gives an empty or
   history-less response, the company adds no event and no market-cap call,
   and the loop goes on with the next company: collection returns only after
   every company of the registry has been visited, with the events of the
   others. *)
C8_FetchFailureNonFatal ==
  /\ [][ (processed' = processed + 1 /\ (fetch_error' \/ no_history(submissions'))) =>
            /\ pc' = "loop"
            /\ UNCHANGED <<all_filings, filings_with_market_cap, stats, cacheVars>> ]_vars
  /\ []((pc = "loop" /\ fetch_error) => submissions.kind = "empty")
  /\ [](pc \in {"collected", "done"} => processed = Len(cik_to_ticker))
  /\ [](\A e \in OutputEvents :
          \E k \in 1..processed : cik_to_ticker[k].ticker = e.ticker /\ cik_to_ticker[k].cik = e.cik)

C8_Witness ==
  /\ pc = "done"
  /\ Len(cik_to_ticker) = 2
  /\ processed = 2
  /\ fetch_error
  /\ sleeps = 1
  /\ Len(all_filings) = 2
  /\ \A e \in SeqRange(all_filings) : e.ticker = cik_to_ticker[1].ticker
  /\ "all" \in files.written

(* C9: collection raises no exception, whatever filing history is retrieved:
   histories whose filingDate, accessionNumber or primaryDocument sequence is
   missing or shorter than form, or whose filing date is not a calendar date,
   included. *)
C9_NoRecordAbortsRun == pc # "raised"

(* C10: every get_market_cap call increments total by one and exactly one of
   the five outcome counters by one, the one named by the returned source
   (failed for "none"): each counter equals the number of calls that returned
   its source, total equals the sum of the five counters plus the call in
   progress and equals the number of calls made; no counter ever decreases. *)
Returned(name) ==
  Cardinality({ k \in 1..Len(all_filings) : all_filings[k].market_cap_source = name })
  + (IF pc \in {"return", "append"} /\ source = name THEN 1 ELSE 0)
CounterNames == {"yahoo_historical", "fmp_api", "calculated", "yahoo_current", "failed"}
C10_OneOutcomePerCall ==
  /\ [](/\ \A name \in Sources : stats[name] = Returned(name)
         /\ stats.failed = Returned("none")
         /\ stats.total = stats.yahoo_historical + stats.fmp_api + stats.calculated
                            + stats.yahoo_current + stats.failed
                            + (IF InStrategy THEN 1 ELSE 0)
         /\ stats.total = Len(all_filings) + (IF InStrategy \/ pc \in {"return", "append"} THEN 1 ELSE 0))
  /\ [][ /\ \A name \in CounterNames \cup {"total"} : stats'[name] >= stats[name]
          /\ (pc' = "return" /\ pc # "return") =>
                \E c \in CounterNames :
                  /\ stats' = [stats EXCEPT ![c] = @ + 1]
                  /\ c = (IF source' = "none" THEN "failed" ELSE source')
          /\ (stats'.total # stats.total) =>
                (stats' = [stats EXCEPT !.total = @ + 1] /\ pc' = "method1") ]_vars

C10_Witness ==
  /\ pc = "done"
  /\ stats.total = 4
  /\ stats.fmp_api = 1
  /\ stats.calculated = 1
  /\ stats.yahoo_current = 1
  /\ stats.failed = 1

(* C11: strategy 2 is attempted only with a key whose startup validation was
   answered 200 with a quote that has a marketCap field: with no key, or after
   a validation answered 401, 403, 429, another status, a 200 without
   marketCap, an unparseable 200 or an exception, the flag is false from
   construction on and no get_market_cap call issues an FMP request, invokes
   strategy 2 or returns source fmp_api. *)
ValidationSucceeded ==
  fmp_api_key /\ validation.status = 200 /\ validation.body = "quote" /\ validation.has
C11_Strategy2NeedsValidKey ==
  /\ []((pc \notin {"main", "new"} /\ ~ValidationSucceeded) =>
          /\ ~fmp_api_working
          /\ fmp_requests = 0
          /\ fmp_status = 0
          /\ stats.fmp_api = 0
          /\ "fmp_api" \notin SeqRange(invoked)
          /\ source # "fmp_api")
  /\ [][ (fmp_requests' # fmp_requests \/ invoked' = Append(invoked, "fmp_api")
           \/ stats'.fmp_api # stats.fmp_api) =>
            (ValidationSucceeded /\ fmp_api_working /\ pc = "method2") ]_vars
  /\ [][ (pc \in {"main", "new"}) =>
            (fmp_api_working' <=>
               (fmp_api_key' /\ validation'.status = 200 /\ validation'.body = "quote"
                /\ validation'.has)) ]_vars

C11_Witness ==
  /\ pc = "return"
  /\ fmp_api_key
  /\ validation = Fmp(200, "quote", FALSE, NoValue)
  /\ stats.total = 2
  /\ invoked = <<"yahoo_historical", "calculated", "yahoo_current">>
  /\ fmp_requests = 0

(* C12: the file save_to_csv writes has at most one row per ticker, the row
   kept for a ticker has the latest filing date of that ticker's events, and
   the symbols file holds exactly the kept tickers, sorted. *)
RowsOf(ticker) == { e \in SeqRange(all_filings) : e.ticker = ticker }
C12_LatestDateSurvives ==
  pc = "saved" =>
    /\ \A a, b \in 1..Len(files.all) : files.all[a].ticker = files.all[b].ticker => a = b
    /\ \A r \in SeqRange(files.all) :
         /\ r \in SeqRange(all_filings)
         /\ \A e \in RowsOf(r.ticker) :
              DateLeq(strptime(e.filing_date), strptime(r.filing_date))
    /\ SeqRange(files.all_symbols) = { e.ticker : e \in SeqRange(all_filings) }
    /\ \A a, b \in 1..Len(files.all_symbols) :
         a < b => TickerRank(files.all_symbols[a]) < TickerRank(files.all_symbols[b])

(* C13: get_market_cap never fails outward: every step of a call, whatever
   the strategy met (missing data, empty history, an HTTP error status, a
   timeout or another exception), either returns that strategy's positive
   value under its name or goes on to the next strategy with nothing
   returned yet; the last strategy always returns, and a call whose
   strategies all failed returns (None, "none"). *)
StrategyAt(p) ==
  CASE p = "method1" -> "yahoo_historical"
    [] p = "method2" -> "fmp_api"
    [] p = "method3" -> "calculated"
    [] OTHER -> "yahoo_current"
NextStrategy(p) ==
  CASE p = "method1" -> "method2"
    [] p = "method2" -> "method3"
    [] OTHER -> "method4"
C13_NeverFailsOutward ==
  /\ [][ InStrategy =>
            \/ /\ pc' = "return"
               /\ source' = StrategyAt(pc)
               /\ result' # NoValue
               /\ Positive(result')
            \/ /\ pc # "method4"
               /\ pc' = NextStrategy(pc)
               /\ result' = NoValue
               /\ source' = NoneStr
            \/ /\ pc = "method4"
               /\ pc' = "return"
               /\ source' = "none"
               /\ result' = NoValue ]_vars
  /\ [](InStrategy => ENABLED <<NextResolver>>_vars)
  /\ []((pc = "return" /\ source = "none") =>
          /\ result = NoValue
          /\ {"yahoo_historical", "calculated", "yahoo_current"} \subseteq SeqRange(invoked)
          /\ (fmp_api_key /\ fmp_api_working => "fmp_api" \in SeqRange(invoked)))

C13_Witness ==
  /\ pc = "return"
  /\ source = "none"
  /\ result = NoValue
  /\ invoked = <<"yahoo_historical", "fmp_api", "calculated", "yahoo_current">>
  /\ fmp_requests = 1
  /\ fmp_status = 0
  /\ fmp_api_working
  /\ date_arg = DateString(2021, 2, 29, TRUE)

(* C14: between any two successive filing-history fetches the loop has
   slept: when the k-th company's history is being fetched or processed, at
   least k - 1 sleeps have been made, whatever the earlier companies'
   fetches gave. *)
C14_SleepBetweenFetches == sleeps >= processed - 1

(* C15: within one filing the exchange is resolved before get_market_cap is
   called, and the returned pair is attached before the event is appended:
   get_market_cap is entered only from a filing whose exchange is resolved and
   whose market-cap fields are still unset, the fields are written once, on
   return, and an event enters all_filings or filings_with_market_cap only
   from the append step, with the fields attached. *)
C15_StepOrder ==
  /\ [](\A e \in OutputEvents :
          e.exchange # NoneStr /\ e.market_cap_source \in SourceNames)
  /\ []((pc = "call" \/ InStrategy \/ pc = "return") =>
          /\ filing_info.exchange # NoneStr
          /\ filing_info.market_cap = NoValue
          /\ filing_info.market_cap_source = NoneStr)
  /\ [](pc = "append" =>
          /\ filing_info.market_cap = result
          /\ filing_info.market_cap_source = source
          /\ source \in SourceNames)
  /\ [][ /\ (stats'.total # stats.total) => pc = "call"
         /\ (<<all_filings, filings_with_market_cap>>' # <<all_filings, filings_with_market_cap>>) =>
              /\ pc = "append"
              /\ all_filings' = Append(all_filings, filing_info)
              /\ filings_with_market_cap' \in
                   {filings_with_market_cap, Append(filings_with_market_cap, filing_info)}
         /\ (filing_info'.market_cap_source # filing_info.market_cap_source) =>
              pc \in {"return", "append"} ]_vars

C15_Witness ==
  /\ pc = "append"
  /\ filing_info.exchange = "NASDAQ"
  /\ filing_info.market_cap = Amount(1999, 999999)
  /\ filing_info.market_cap_source = "fmp_api"
  /\ Len(all_filings) = 1
  /\ lookups[filing_info.ticker] = 1

(* C16: an FMP request answered 403 is a one-off miss: the call goes on to
   strategy 3 with nothing returned, the enabled flag stays as it was (true),
   and a later call that reaches strategy 2 issues an FMP request again. *)
C16_ForbiddenIsOneOff ==
  /\ [][ (fmp_requests' # fmp_requests /\ fmp_status' = 403) =>
            /\ fmp_api_working' = fmp_api_working
            /\ fmp_api_working'
            /\ pc' = "method3"
            /\ result' = NoValue
            /\ stats' = stats ]_vars
  /\ [](fmp_status = 403 => fmp_api_working)
  /\ [][ (pc = "method2" /\ fmp_status = 403 /\ pc' # pc) =>
            /\ fmp_requests' = fmp_requests + 1
            /\ invoked' = Append(invoked, "fmp_api") ]_vars

\* the first call's request was answered 403 and the call went on to return;
\* the second call is at strategy 2, which is enabled
C16_Witness ==
  /\ pc = "method2"
  /\ stats.total = 2
  /\ stats.calculated = 1
  /\ fmp_requests = 1
  /\ fmp_status = 403
  /\ Method2Enabled
  /\ invoked = <<"yahoo_historical">>

(* C17: an entry of a filing history goes on to exchange resolution iff its
   form is "25" or "25-NSE" and its filing date d satisfies
   2015-01-01 <= d <= 2024-12-31, both bounds included; every event in
   all_filings has such a form and date. *)
Considered(form, filing_date) ==
  /\ form \in {"25", "25-NSE"}
  /\ DateLeq(<<2015, 1, 1>>, strptime(filing_date))
  /\ DateLeq(strptime(filing_date), <<2024, 12, 31>>)
C17_FormAndDateFilter ==
  /\ [](\A e \in OutputEvents : Considered(e.form_type, e.filing_date))
  /\ []((pc \in {"exchange", "call", "append"}) =>
          Considered(submissions.recent.form[i + 1], submissions.recent.filingDate[i + 1]))
  /\ [][ (pc = "scan" /\ pc' \in {"scan", "exchange"}) =>
            (pc' = "exchange" <=>
               Considered(submissions.recent.form[i + 1], submissions.recent.filingDate[i + 1])) ]_vars

C17_Witness ==
  /\ pc = "done"
  /\ Len(all_filings) = 2
  /\ all_filings[1].filing_date = DateString(2015, 1, 1, TRUE)
  /\ all_filings[1].form_type = "25"
  /\ all_filings[2].filing_date = DateString(2024, 12, 31, TRUE)
  /\ all_filings[2].form_type = "25-NSE"

(* C18 as stated: the cache is populated on the first lookup of a ticker, so
   at most one external exchange lookup is made per ticker in a run. *)
C18_AsStated ==
  \A t \in Tickers :
    /\ lookups[t] <= 1
    /\ lookups[t] = 1 => t \in DOMAIN ticker_to_exchange

(* C18 (amended): a cache entry, once written, is never overwritten or
   removed, and a ticker with an entry is answered from the cache without an
   external lookup; an entry is written exactly by an external lookup that
   resolves to a mapped exchange, so at most one external lookup per ticker
   resolves; a lookup that does not resolve writes nothing and the filing
   is skipped. *)
MappedExchanges == {"NYSE", "NASDAQ", "AMEX", "NYSE ARCA"}
C18_WriteOnceCache ==
  /\ [](\A t \in DOMAIN ticker_to_exchange :
          ticker_to_exchange[t] \in MappedExchanges /\ lookups[t] >= 1)
  /\ [][ \A t \in DOMAIN ticker_to_exchange :
            /\ t \in DOMAIN ticker_to_exchange'
            /\ ticker_to_exchange'[t] = ticker_to_exchange[t]
            /\ lookups'[t] = lookups[t] ]_vars
  /\ [][ \A t \in Tickers :
            /\ (lookups'[t] # lookups[t]) =>
                 (pc = "exchange" /\ t = Company.ticker /\ lookups'[t] = lookups[t] + 1)
            /\ (lookups'[t] # lookups[t] /\ t \notin DOMAIN ticker_to_exchange') =>
                 (pc' = "scan" /\ i' = i + 1)
            /\ (t \in DOMAIN ticker_to_exchange' /\ t \notin DOMAIN ticker_to_exchange) =>
                 lookups'[t] = lookups[t] + 1 ]_vars

C18_Witness ==
  /\ pc = "done"
  /\ lookups["ABCD"] = 2
  /\ "ABCD" \notin DOMAIN ticker_to_exchange
  /\ lookups["WXYZ"] = 1
  /\ Resolved(ticker_to_exchange, "WXYZ") = "NASDAQ"
  /\ Len(all_filings) = 2
  /\ \A e \in SeqRange(all_filings) : e.ticker = "WXYZ" /\ e.exchange = "NASDAQ"

====
